---- MODULE Spec2Model ----
(***************************************************************************)
(* Browser-side authentication orchestration of the job board:             *)
(*   - the transport client apiRequest and the session slot (lib/api.js),  *)
(*   - the login and registration orchestration of AuthModal and the page  *)
(*     state of Index,                                                     *)
(*   - the one-time-code controller OTPVerificationModal, with its resend  *)
(*     and the cooldown timer.                                             *)
(*                                                                         *)
(* Text is a sequence of tokens: a message is a sequence of words, a code  *)
(* typed into the OTP field is a sequence of characters.  A JavaScript     *)
(* value is a tagged record, so that typeof, truthiness, property reads    *)
(* and String.prototype / Array.prototype.includes are computed the way    *)
(* the language computes them.                                             *)
(***************************************************************************)
EXTENDS Integers, Sequences, FiniteSets, TLC

VARIABLES
    auth_token,                 \* localStorage slot 'auth_token' (JNull when absent)
    isAuthModalOpen,            \* Index: useState(false)
    isAuthenticated,            \* Index: useState(false), set by the mount effect
    user,                       \* Index: useState(undefined)
    activeTab,                  \* AuthModal: useState('login')
    authIsLoading,              \* AuthModal: isLoading
    isOTPModalOpen,             \* AuthModal: useState(false)
    pendingVerificationEmail,   \* AuthModal: useState('')
    otp,                        \* OTPVerificationModal: useState('')
    otpIsLoading,               \* OTPVerificationModal: isLoading
    isResending,                \* OTPVerificationModal: useState(false)
    timeLeft,                   \* OTPVerificationModal: useState(0), seconds of cooldown
    countdownRef,               \* OTPVerificationModal: useRef(null), id of the interval
    intervals,                  \* ids of the intervals the browser is running
    mounted,                    \* the page with AuthModal and its modals is mounted
    isForgotPasswordOpen,       \* AuthModal: useState(false)
    recEmail,                   \* ForgotPasswordModal: email, useState('')
    recIsLoading,               \* ForgotPasswordModal: isLoading
    recIsSuccess,               \* ForgotPasswordModal: isSuccess
    pending,                    \* requests sent and not yet settled
    ev                          \* what the most recent handler run did

vars == << auth_token, isAuthModalOpen, isAuthenticated, user, activeTab,
           authIsLoading, isOTPModalOpen, pendingVerificationEmail,
           otp, otpIsLoading, isResending, timeLeft, countdownRef, intervals,
           mounted, isForgotPasswordOpen, recEmail, recIsLoading, recIsSuccess,
           pending, ev >>

\* the resend state of the OTP controller and the browser's timers
cooldownVars == << isResending, timeLeft, countdownRef, intervals >>

\* the state of the recovery modal and whether AuthModal shows it
recoveryVars == << isForgotPasswordOpen, recEmail, recIsLoading, recIsSuccess >>

---------------------------------------------------------------------------
(* Bounds of the model *)

\* longest text a paste delivers
MaxInputLen == 7
\* most non-digit characters in a pasted or autofilled text
MaxLetters == 1

---------------------------------------------------------------------------
(* JavaScript values *)

Undef == [t |-> "undefined"]
JNull == [t |-> "null"]
JBool(b) == [t |-> "boolean", b |-> b]
JNum(n) == [t |-> "number", n |-> n]
JStr(s) == [t |-> "string", s |-> s]
JArr(a) == [t |-> "array", a |-> a]
JObj(f) == [t |-> "object", f |-> f]

Nullish(v) == v.t \in {"undefined", "null"}

\* ToBoolean
Truthy(v) ==
    CASE v.t = "undefined" -> FALSE
      [] v.t = "null" -> FALSE
      [] v.t = "boolean" -> v.b
      [] v.t = "number" -> v.n # 0
      [] v.t = "string" -> v.s # << >>
      [] OTHER -> TRUE

\* a || b
Or(a, b) == IF Truthy(a) THEN a ELSE b

\* v.k for a v that is neither null nor undefined
Get(v, k) == IF v.t = "object" /\ k \in DOMAIN v.f THEN v.f[k] ELSE Undef

\* String.prototype.includes
StrIncludes(s, sub) ==
    \E i \in 0..(Len(s) - Len(sub)) : SubSeq(s, i + 1, i + Len(sub)) = sub

\* Array.prototype.includes (SameValueZero on the elements)
ArrIncludes(a, x) == \E i \in 1..Len(a) : a[i] = x

\* completion records: a normal return or a throw
Return(v) == [ok |-> TRUE, v |-> v]
Throw(e) == [ok |-> FALSE, e |-> e]

\* new Error(message) / new TypeError(message) / a SyntaxError of JSON parsing
MkError(cls, message) ==
    [cls |-> cls, name |-> cls, message |-> JStr(message),
     status |-> Undef, details |-> Undef]

---------------------------------------------------------------------------
(* Transport client: lib/api.js *)

\* class APIError extends Error: name stays "Error", status and details are set
APIError(message, status, details) ==
    [cls |-> "APIError", name |-> "Error", message |-> message,
     status |-> status, details |-> details]

MsgNetworkError == << "Network", "error" >>
MsgRequestFailed == << "Request", "failed" >>

\* messages of errors raised by the runtime, one token each
MsgJsonSyntax == << "Unexpected token in JSON" >>
MsgBodyUsed == << "body stream already read" >>
MsgNullDetails == << "Cannot read properties of null (reading 'details')" >>

\* response.ok
ResponseOk(status) == status >= 200 /\ status <= 299

\* response.json(): reads the body stream to its end, then parses it
ResponseJson(resp) ==
    IF resp.body.b = "json" THEN Return(resp.body.v)
    ELSE Throw(MkError("SyntaxError", MsgJsonSyntax))

\* the body stream of the response is used up once json() has read it;
\* a response without a body (204, 304) has no stream to use up
BodyUsedAfterJson(resp) == resp.body.b # "none"

\* response.text() in the catch of response.json(): rejects with a TypeError
\* when the body has already been read, and gives "" when there is no body
ResponseText(resp) ==
    IF BodyUsedAfterJson(resp) THEN Throw(MkError("TypeError", MsgBodyUsed))
    ELSE Return(JStr(<< >>))

\* inner try/catch: data = await response.json(), else await response.text()
ReadData(resp) ==
    LET j == ResponseJson(resp) IN IF j.ok THEN j ELSE ResponseText(resp)

\* first argument of new APIError(...)
ErrorMessageOf(data) ==
    LET e == IF Truthy(data) THEN Get(data, "error") ELSE data
    IN  Or(e, IF data.t = "string" THEN data ELSE JStr(MsgRequestFailed))

\* third argument of new APIError(...): data.details || data
ErrorDetailsOf(data) ==
    IF Nullish(data) THEN Throw(MkError("TypeError", MsgNullDetails))
    ELSE Return(Or(Get(data, "details"), data))

\* if (!response.ok) throw new APIError(...); return data
Classify(resp, data) ==
    IF ResponseOk(resp.status) THEN Return(data)
    ELSE LET d == ErrorDetailsOf(data)
         IN  IF d.ok THEN Throw(APIError(ErrorMessageOf(data), JNum(resp.status), d.v))
             ELSE d

\* the outer catch rethrowing whatever it caught
CatchAllRethrow(c) == c

\* outer catch: an APIError is rethrown, anything else becomes 'Network error'
CatchAll(c) ==
    IF c.ok \/ c.e.cls = "APIError" THEN c
    ELSE Throw(APIError(JStr(MsgNetworkError), JNum(0), c.e.message))

\* what the awaited fetch gives: a rejection (no response) or a response
FetchSettled(outcome) ==
    IF outcome.k = "reject" THEN Throw(MkError("TypeError", outcome.cause))
    ELSE Return(outcome)

\* apiRequest from the moment fetch settles
apiRequest(outcome) ==
    LET f == FetchSettled(outcome)
        inTry == IF ~f.ok THEN f
                 ELSE LET d == ReadData(f.v)
                      IN  IF d.ok THEN Classify(f.v, d.v) ELSE d
    IN  CatchAll(inTry)

---------------------------------------------------------------------------
(* What the backend and the network can answer *)

Emails == {<< "a@b.com" >>, << "c@d.com" >>}

MsgInvalidCredentials == << "Invalid", "credentials" >>
MsgEmailNotVerified == << "Email", "not", "verified" >>
MsgNotVerified == << "not", "verified" >>
MsgForbidden == << "Forbidden" >>

Tokens == {JStr(<< "tokA" >>), JStr(<< "tokB" >>)}

JsonBodies ==
    {  JObj([error |-> JStr(MsgInvalidCredentials)]),
       JObj([error |-> JStr(MsgEmailNotVerified)]),
       JObj([error |-> JStr(<< "Please", "verify:", "Email", "not", "verified" >>)]),
       JObj([error |-> JStr(MsgForbidden), details |-> JStr(MsgEmailNotVerified)]),
       JObj([error |-> JStr(MsgForbidden), details |-> JArr(<< JStr(MsgNotVerified) >>)]),
       JObj([error |-> JStr(MsgForbidden), details |-> JArr(<< JStr(MsgEmailNotVerified) >>)]),
       JObj([error |-> JStr(MsgForbidden),
             details |-> JObj([email |-> JStr(MsgEmailNotVerified)])]),
       JObj([error |-> JStr(<< >>)]),
       JObj([details |-> JStr(<< "password", "too", "short" >>)]),
       JObj([message |-> JStr(<< "ok" >>)]),
       JObj([success |-> JBool(TRUE)]),
       JObj([id |-> JStr(<< "u1" >>), email |-> JStr(<< "a@b.com" >>)]),
       JObj([id |-> JStr(<< "u1" >>), token |-> JStr(<< >>)]),
       JNull,
       JStr(MsgEmailNotVerified),
       JStr(<< >>)  }
    \cup { JObj([id |-> JStr(<< "u1" >>), token |-> k]) : k \in Tokens }

\* bodies that are not JSON texts (the empty body among them)
TextBodies == { << "<html>", "Bad", "Gateway" >>, MsgEmailNotVerified, << >> }

\* a response carries a body stream, except one with a null-body status
StreamBodies ==
    { [b |-> "json", v |-> v] : v \in JsonBodies }
    \cup { [b |-> "text", s |-> s] : s \in TextBodies }

Statuses == {200, 201, 299, 300, 401, 403, 500}
NullBodyStatuses == {204}

FetchFailures == { << "Failed to fetch" >>, << "The user aborted a request." >> }

Outcomes ==
    { [k |-> "response", status |-> s, body |-> b] : s \in Statuses, b \in StreamBodies }
    \cup { [k |-> "response", status |-> s, body |-> [b |-> "none"]] : s \in NullBodyStatuses }
    \cup { [k |-> "reject", cause |-> c] : c \in FetchFailures }

\* the answers the OTP controller is run against
OtpOutcomes ==
    { [k |-> "response", status |-> s, body |-> [b |-> "json", v |-> v]] :
        s \in {200, 401},
        v \in { JObj([success |-> JBool(TRUE)]), JObj([message |-> JStr(<< "ok" >>)]),
                JObj([error |-> JStr(MsgInvalidCredentials)]), JNull, JStr(<< >>) } }
    \cup { [k |-> "reject", cause |-> << "Failed to fetch" >>] }

---------------------------------------------------------------------------
(* Session store: authHelpers of lib/api.js *)

\* a store that keeps the token it already has
setTokenKeepFirst(token) == IF auth_token = JNull THEN token ELSE auth_token

\* authHelpers.setToken: localStorage.setItem stores the token string
setToken(token) == token

\* a removeToken that leaves the slot as it is
removeTokenKeeps == auth_token

\* authHelpers.removeToken: getItem gives null afterwards
removeToken == JNull

\* authHelpers.getToken
getToken == auth_token

\* authHelpers.isAuthenticated: !!localStorage.getItem('auth_token')
authHelpersIsAuthenticated == Truthy(getToken)

---------------------------------------------------------------------------
(* Toasts and the outcome record of a handler run *)

None == [t |-> "none"]

Toast(title, description) == [title |-> title, description |-> description]

TitleSignInFailed == << "Sign", "in", "failed" >>
TitleWelcomeBack == << "Welcome", "back!" >>
TitleInvalidOTP == << "Invalid", "OTP" >>
TitleEmailVerified == << "Email", "verified!" >>
TitleVerificationFailed == << "Verification", "failed" >>

MsgNoToken == << "No", "authentication", "token", "received" >>
MsgCheckCredentials == << "Please check your credentials and try again." >>
MsgSignedIn == << "You have successfully signed in." >>
MsgEnterValidCode == << "Please enter a valid 6-digit code." >>
MsgVerified == << "Your account has been successfully verified. You can now sign in." >>
MsgVerificationFailed == << "Verification failed. Please try again." >>
MsgInvalidOrExpired == << "Invalid or expired OTP code. Please try again." >>
MsgDestructureNull == << "Cannot destructure 'response' as it is null." >>
MsgIncludesNotFunction == << "error.details?.includes is not a function" >>

---------------------------------------------------------------------------
(* Login orchestration: handleLogin of AuthModal *)

\* the destructuring with the whole response kept as the user
DestructureKeepToken(response) ==
    IF Nullish(response) THEN Throw(MkError("TypeError", MsgDestructureNull))
    ELSE Return([token |-> Get(response, "token"),
                 user |-> IF response.t = "object" THEN response
                          ELSE JObj([k \in {} |-> Undef])])

\* const { token, ...user } = response: throws on null, else splits the token off
Destructure(response) ==
    IF Nullish(response) THEN Throw(MkError("TypeError", MsgDestructureNull))
    ELSE Return([token |-> Get(response, "token"),
                 user |-> IF response.t = "object"
                          THEN JObj([k \in DOMAIN response.f \ {"token"} |-> response.f[k]])
                          ELSE JObj([k \in {} |-> Undef])])

\* the try block after the await: the split response, or what is thrown
LoginTry(res) ==
    IF ~res.ok THEN res
    ELSE LET d == Destructure(res.v)
         IN  IF ~d.ok THEN d
             ELSE IF ~Truthy(d.v.token) THEN Throw(MkError("Error", MsgNoToken))
             ELSE d

\* error.details?.includes('not verified'): undefined on a missing details, a
\* substring test on a string, a membership test on an array, and a TypeError
\* on any other value, which has no includes method
DetailsIncludes(details) ==
    CASE Nullish(details) -> Return(FALSE)
      [] details.t = "string" -> Return(StrIncludes(details.s, MsgNotVerified))
      [] details.t = "array" -> Return(ArrIncludes(details.a, JStr(MsgNotVerified)))
      [] OTHER -> Throw(MkError("TypeError", MsgIncludesNotFunction))

\* the condition of the if in the catch block, with its short circuit
IsUnverified(error) ==
    IF StrIncludes(error.message.s, MsgEmailNotVerified) THEN Return(TRUE)
    ELSE DetailsIncludes(error.details)

\* the catch block: hand off to the OTP modal, or show the failure toast,
\* or throw from the condition itself
LoginCatch(error, email) ==
    LET u == IsUnverified(error)
    IN  IF ~u.ok THEN
            [otpFor |-> None, toast |-> None, uncaught |-> u.e]
        ELSE IF u.v THEN
            [otpFor |-> JStr(email), toast |-> None, uncaught |-> None]
        ELSE
            [otpFor |-> None, uncaught |-> None,
             toast |-> Toast(TitleSignInFailed,
                             Or(error.message, JStr(MsgCheckCredentials)))]

\* handleLogin storing the token field before it checks it
handleLoginStoreFirst(res, email) ==
    LET t == LoginTry(res)
        d == IF res.ok THEN Destructure(res.v) ELSE res
    IN  IF t.ok THEN
            [success |-> TRUE, stored |-> setToken(t.v.token), user |-> t.v.user,
             closed |-> TRUE, otpFor |-> None, uncaught |-> None,
             toast |-> Toast(TitleWelcomeBack, JStr(MsgSignedIn)), error |-> None,
             order |-> << "setToken", "onLoginSuccess", "toast", "onClose" >>]
        ELSE LET c == LoginCatch(t.e, email)
             IN  [success |-> FALSE,
                  stored |-> IF d.ok /\ d.v.token.t = "string"
                             THEN setToken(d.v.token) ELSE None,
                  user |-> None,
                  closed |-> FALSE, otpFor |-> c.otpFor, uncaught |-> c.uncaught,
                  toast |-> c.toast, error |-> t.e, order |-> << >>]

\* everything handleLogin does once authAPI.login has settled with res;
\* order lists the calls of the success path in the order the code makes them
handleLoginSettled(res, email) ==
    LET t == LoginTry(res)
    IN  IF t.ok THEN
            [success |-> TRUE, stored |-> setToken(t.v.token), user |-> t.v.user,
             closed |-> TRUE, otpFor |-> None, uncaught |-> None,
             toast |-> Toast(TitleWelcomeBack, JStr(MsgSignedIn)), error |-> None,
             order |-> << "setToken", "onLoginSuccess", "toast", "onClose" >>]
        ELSE LET c == LoginCatch(t.e, email)
             IN  [success |-> FALSE, stored |-> None, user |-> None,
                  closed |-> FALSE, otpFor |-> c.otpFor, uncaught |-> c.uncaught,
                  toast |-> c.toast, error |-> t.e, order |-> << >>]

\* handleLogin up to the await: the submit button is disabled while isLoading
handleLogin(email) ==
    /\ isAuthModalOpen /\ activeTab = "login" /\ ~authIsLoading
    /\ authIsLoading' = TRUE
    /\ pending' = pending \cup {[op |-> "login", email |-> email]}
    /\ ev' = [op |-> "handleLogin", email |-> email]
    /\ UNCHANGED cooldownVars
    /\ UNCHANGED << mounted, recoveryVars >>
    /\ UNCHANGED << auth_token, isAuthModalOpen, isAuthenticated, user, activeTab,
                    isOTPModalOpen, pendingVerificationEmail, otp, otpIsLoading >>

\* handleLogin from the await on, with handleLoginSuccess and onClose of Index
LoginSettled(req, outcome) ==
    LET res == apiRequest(outcome)
        h == handleLoginSettled(res, req.email)
    IN  /\ req \in pending /\ req.op = "login"
        /\ pending' = pending \ {req}
        /\ authIsLoading' = FALSE
        /\ auth_token' = IF h.stored = None THEN auth_token ELSE h.stored
        /\ user' = IF h.success THEN h.user ELSE user
        /\ isAuthenticated' = IF h.success THEN TRUE ELSE isAuthenticated
        /\ isAuthModalOpen' = IF h.closed THEN FALSE ELSE isAuthModalOpen
        /\ isOTPModalOpen' = IF h.otpFor = None THEN isOTPModalOpen ELSE TRUE
        /\ pendingVerificationEmail' =
               IF h.otpFor = None THEN pendingVerificationEmail ELSE h.otpFor.s
        /\ ev' = [op |-> "loginSettled", email |-> req.email, outcome |-> outcome,
                  result |-> res, did |-> h, tokenBefore |-> auth_token]
        /\ UNCHANGED cooldownVars
        /\ UNCHANGED << mounted, recoveryVars >>
        /\ UNCHANGED << activeTab, otp, otpIsLoading >>

---------------------------------------------------------------------------
(* Registration orchestration: handleRegister of AuthModal *)

TitleAccountCreated == << "Account", "created!" >>
TitleWelcomeNew == << "Welcome", "to", "CareerBridge!" >>
TitleRegistrationFailed == << "Registration", "failed" >>

MsgCheckYourEmail == << "Please check your email and enter the verification code." >>
MsgAccountCreated == << "Your account has been created successfully." >>
MsgUnexpectedResponse == << "Unexpected", "response", "from", "server" >>
MsgCheckInformation == << "Please check your information and try again." >>
MsgAccountExists ==
    << "An account with this email already exists. Please sign in or use a different email." >>
MsgUnableToConnect ==
    << "Unable to connect to the server. Please check your internet connection and ensure the backend is running." >>

\* the needles of the two includes tests on error.message
MsgAlreadyExists == << "already", "exists" >>
MsgNetwork == << "network" >>

\* what the backend can answer to a registration
RegisterBodies ==
    {  JObj([needsVerification |-> JBool(TRUE)]),
       JObj([needsVerification |-> JBool(TRUE), token |-> JStr(<< "tokA" >>)]),
       JObj([needsVerification |-> JBool(FALSE), token |-> JStr(<< "tokB" >>),
             user |-> JObj([id |-> JStr(<< "u2" >>)])]),
       JObj([token |-> JStr(<< "tokA" >>), user |-> JObj([id |-> JStr(<< "u1" >>)])]),
       JObj([id |-> JStr(<< "u1" >>), token |-> JStr(<< "tokA" >>)]),
       JObj([message |-> JStr(<< "ok" >>)]),
       JNull,
       JObj([error |-> JStr(<< "User", "already", "exists" >>)]),
       JObj([error |-> JStr(<< "Validation", "failed" >>),
             details |-> JObj([email |-> JArr(<< JStr(<< "Invalid", "email" >>),
                                                 JStr(<< "Email", "too", "long" >>) >>)])]),
       JObj([error |-> JStr(<< "Validation", "failed" >>),
             details |-> JStr(<< "password", "too", "short" >>)]),
       JObj([error |-> JStr(<< "Conflict" >>),
             details |-> JArr(<< JStr(<< "email", "already", "exists" >>) >>)]),
       JObj([error |-> JStr(<< "Server", "error" >>)]),
       JObj([error |-> JStr(<< "upstream", "network", "timeout" >>)]),
       JObj([details |-> JObj([email |-> JStr(<< >>)])])  }

RegisterOutcomes ==
    { [k |-> "response", status |-> s, body |-> [b |-> "json", v |-> v]] :
        s \in {201, 400}, v \in RegisterBodies }
    \cup { [k |-> "response", status |-> s,
            body |-> [b |-> "text", s |-> << "<html>", "Bad", "Gateway" >>]] :
             s \in {201, 400} }
    \cup { [k |-> "reject", cause |-> << "Failed to fetch" >>] }

\* the elements of a non-empty sequence of sequences, one after the other
RECURSIVE Concat(_)
Concat(seqs) ==
    IF seqs = << >> THEN << >> ELSE Head(seqs) \o Concat(Tail(seqs))

\* Object.values(v): the elements of an array, the field values of an object
\* (one order of the fields; the bodies used have one field where it matters)
ObjectValues(v) ==
    IF v.t = "array" THEN v.a
    ELSE IF v.t = "object" THEN
        LET ks == CHOOSE q \in [1..Cardinality(DOMAIN v.f) -> DOMAIN v.f] :
                      { q[i] : i \in 1..Cardinality(DOMAIN v.f) } = DOMAIN v.f
        IN  [ i \in 1..Cardinality(DOMAIN v.f) |-> v.f[ks[i]] ]
    ELSE << >>

\* Array.prototype.flat(): arrays among the elements are opened, one level deep
Flat(a) == Concat([ i \in 1..Len(a) |-> IF a[i].t = "array" THEN a[i].a ELSE << a[i] >> ])

\* the text of one element inside join: nothing for null and undefined,
\* the texts of its elements for an array (their commas are left out)
RECURSIVE JoinText(_)
JoinText(v) ==
    CASE v.t = "string" -> v.s
      [] v.t \in {"undefined", "null"} -> << >>
      [] v.t = "boolean" -> IF v.b THEN << "true" >> ELSE << "false" >>
      [] v.t = "array" -> Concat([ i \in 1..Len(v.a) |-> JoinText(v.a[i]) ])
      [] OTHER -> << "[object Object]" >>

\* Array.prototype.join(' '): the words of the elements, in order
Join(a) == Concat([ i \in 1..Len(a) |-> JoinText(a[i]) ])

\* typeof error.details === 'object' ? Object.values(...).flat().join(' ')
\*                                    : String(error.details)
DetailsText(details) ==
    IF details.t \in {"object", "array"} THEN JStr(Join(Flat(ObjectValues(details))))
    ELSE JStr(JoinText(details))

\* error.response?.data: neither an Error nor an APIError has a response
ErrorResponseData(error) == Undef

\* the description of the "Registration failed" toast: the if chain of the catch
RegisterErrorMessage(error) ==
    IF StrIncludes(error.message.s, MsgAlreadyExists)
       \/ (Truthy(ErrorResponseData(error))
           /\ StrIncludes(ErrorResponseData(error).s, MsgAlreadyExists))
    THEN JStr(MsgAccountExists)
    ELSE IF StrIncludes(error.message.s, MsgNetwork) \/ error.name = "TypeError"
    THEN JStr(MsgUnableToConnect)
    ELSE IF Truthy(error.details)
    THEN Or(DetailsText(error.details), error.message)
    ELSE IF Truthy(ErrorResponseData(error))
    THEN Or(Get(ErrorResponseData(error), "message"), ErrorResponseData(error))
    ELSE IF Truthy(error.message) THEN error.message
    ELSE JStr(MsgCheckInformation)

\* response?.k
OptGet(response, k) == IF Nullish(response) THEN Undef ELSE Get(response, k)

\* the response without its token, as handleLogin takes its user
RegisteredUserRest(response) ==
    JObj([k \in DOMAIN response.f \ {"token"} |-> response.f[k]])

\* response.user, the first argument of onLoginSuccess
RegisteredUser(response) == Get(response, "user")

\* the catch block of handleRegister for the error thrown in the try
RegisterFailed(error) ==
    [branch |-> "failed", otpFor |-> None, stored |-> None, user |-> None,
     closed |-> FALSE, error |-> error,
     toast |-> Toast(TitleRegistrationFailed, RegisterErrorMessage(error))]

\* handleRegister testing response?.token before response?.needsVerification
handleRegisterTokenFirst(res, email) ==
    IF ~res.ok THEN RegisterFailed(res.e)
    ELSE IF Truthy(OptGet(res.v, "token")) THEN
        [branch |-> "login", otpFor |-> None, stored |-> setToken(Get(res.v, "token")),
         user |-> RegisteredUser(res.v), closed |-> TRUE, error |-> None,
         toast |-> Toast(TitleWelcomeNew, JStr(MsgAccountCreated))]
    ELSE IF Truthy(OptGet(res.v, "needsVerification")) THEN
        [branch |-> "verify", otpFor |-> JStr(email), stored |-> None, user |-> None,
         closed |-> FALSE, error |-> None,
         toast |-> Toast(TitleAccountCreated, JStr(MsgCheckYourEmail))]
    ELSE RegisterFailed(MkError("Error", MsgUnexpectedResponse))

\* everything handleRegister does once authAPI.register has settled with res
handleRegisterSettled(res, email) ==
    IF ~res.ok THEN RegisterFailed(res.e)
    ELSE IF Truthy(OptGet(res.v, "needsVerification")) THEN
        [branch |-> "verify", otpFor |-> JStr(email), stored |-> None, user |-> None,
         closed |-> FALSE, error |-> None,
         toast |-> Toast(TitleAccountCreated, JStr(MsgCheckYourEmail))]
    ELSE IF Truthy(OptGet(res.v, "token")) THEN
        [branch |-> "login", otpFor |-> None, stored |-> setToken(Get(res.v, "token")),
         user |-> RegisteredUser(res.v), closed |-> TRUE, error |-> None,
         toast |-> Toast(TitleWelcomeNew, JStr(MsgAccountCreated))]
    ELSE RegisterFailed(MkError("Error", MsgUnexpectedResponse))

\* handleRegister up to the await: the submit button is disabled while isLoading
handleRegister(email) ==
    /\ isAuthModalOpen /\ activeTab = "register" /\ ~authIsLoading
    /\ authIsLoading' = TRUE
    /\ pending' = pending \cup {[op |-> "register", email |-> email]}
    /\ ev' = [op |-> "handleRegister", email |-> email]
    /\ UNCHANGED cooldownVars
    /\ UNCHANGED << mounted, recoveryVars >>
    /\ UNCHANGED << auth_token, isAuthModalOpen, isAuthenticated, user, activeTab,
                    isOTPModalOpen, pendingVerificationEmail, otp, otpIsLoading >>

\* handleRegister from the await on, with handleLoginSuccess and onClose of Index
RegisterSettled(req, outcome) ==
    LET res == apiRequest(outcome)
        h == handleRegisterSettled(res, req.email)
    IN  /\ req \in pending /\ req.op = "register"
        /\ pending' = pending \ {req}
        /\ authIsLoading' = FALSE
        /\ auth_token' = IF h.stored = None THEN auth_token ELSE h.stored
        /\ user' = IF h.branch = "login" THEN h.user ELSE user
        /\ isAuthenticated' = IF h.branch = "login" THEN TRUE ELSE isAuthenticated
        /\ isAuthModalOpen' = IF h.closed THEN FALSE ELSE isAuthModalOpen
        /\ isOTPModalOpen' = IF h.otpFor = None THEN isOTPModalOpen ELSE TRUE
        /\ pendingVerificationEmail' =
               IF h.otpFor = None THEN pendingVerificationEmail ELSE h.otpFor.s
        /\ ev' = [op |-> "registerSettled", email |-> req.email, outcome |-> outcome,
                  result |-> res, did |-> h, tokenBefore |-> auth_token]
        /\ UNCHANGED cooldownVars
        /\ UNCHANGED << mounted, recoveryVars >>
        /\ UNCHANGED << activeTab, otp, otpIsLoading >>

---------------------------------------------------------------------------
(* Page state: Index *)

\* onLogin of the header (shown when not authenticated), onGetStarted of the hero
OpenAuthModal ==
    /\ ~isAuthModalOpen
    /\ isAuthModalOpen' = TRUE
    /\ ev' = [op |-> "openAuthModal"]
    /\ UNCHANGED cooldownVars
    /\ UNCHANGED << mounted, recoveryVars >>
    /\ UNCHANGED << auth_token, isAuthenticated, user, activeTab, authIsLoading,
                    isOTPModalOpen, pendingVerificationEmail, otp, otpIsLoading,
                    pending >>

\* onClose of AuthModal
CloseAuthModal ==
    /\ isAuthModalOpen
    /\ isAuthModalOpen' = FALSE
    /\ ev' = [op |-> "closeAuthModal"]
    /\ UNCHANGED cooldownVars
    /\ UNCHANGED << mounted, recoveryVars >>
    /\ UNCHANGED << auth_token, isAuthenticated, user, activeTab, authIsLoading,
                    isOTPModalOpen, pendingVerificationEmail, otp, otpIsLoading,
                    pending >>

\* handleLogout: the header shows it when authenticated
handleLogout ==
    /\ isAuthenticated
    /\ auth_token' = removeToken
    /\ user' = Undef
    /\ isAuthenticated' = FALSE
    /\ ev' = [op |-> "handleLogout"]
    /\ UNCHANGED cooldownVars
    /\ UNCHANGED << mounted, recoveryVars >>
    /\ UNCHANGED << isAuthModalOpen, activeTab, authIsLoading, isOTPModalOpen,
                    pendingVerificationEmail, otp, otpIsLoading, pending >>

\* onClose of OTPVerificationModal: "Back to Sign In", Escape, overlay click
CloseOTP ==
    /\ mounted /\ isOTPModalOpen
    /\ isOTPModalOpen' = FALSE
    /\ ev' = [op |-> "closeOTP"]
    /\ UNCHANGED cooldownVars
    /\ UNCHANGED << mounted, recoveryVars >>
    /\ UNCHANGED << auth_token, isAuthModalOpen, isAuthenticated, user, activeTab,
                    authIsLoading, pendingVerificationEmail, otp, otpIsLoading,
                    pending >>

---------------------------------------------------------------------------
(* One-time-code controller: OTPVerificationModal *)

OtpLen == 6

\* maxLength={6} of the input: the browser refuses a longer typed value
maxLength == 6

DigitChars == {"0", "1", "2", "3", "4", "5", "6", "7", "8", "9"}

\* characters the user's texts are built from
InputChars == {"1", "2", "a"}

\* the digits of a pasted text, in order: all "1", all "2", or "1212..."
DigitStreams == {"ones", "twos", "alternating"}

DigitAt(stream, k) ==
    CASE stream = "ones" -> "1"
      [] stream = "twos" -> "2"
      [] OTHER -> IF k % 2 = 1 THEN "1" ELSE "2"

\* the text of length n with the letter "a" at the positions A and the
\* digits of the stream at the others
TextOf(n, A, stream) ==
    [ i \in 1..n |->
        IF i \in A THEN "a"
        ELSE DigitAt(stream, Cardinality({ j \in 1..i : j \notin A })) ]

\* texts of the clipboard (and of an autofill)
PasteTexts ==
    { SubSeq(TextOf(n, A, stream), 1, n) :
        n \in 0..MaxInputLen,
        A \in { B \in SUBSET (1..MaxInputLen) : Cardinality(B) <= MaxLetters },
        stream \in DigitStreams }

\* cur with its characters i+1..j replaced by t
Splice(cur, i, j, t) == SubSeq(cur, 1, i) \o t \o SubSeq(cur, j + 1, Len(cur))

\* one keystroke: a character typed or nothing (a deletion)
Keystrokes == { << >> } \cup { << c >> : c \in InputChars }

\* e.target.value of a change event when the field shows cur: cur after one
\* keystroke over a selection, or a whole text filled in at once; never
\* longer than maxLength and never cur itself
ChangeTexts(cur) ==
    { s \in { Splice(cur, i, j, t) :
                 i \in 0..Len(cur), j \in 0..Len(cur), t \in Keystrokes }
             \cup PasteTexts :
        Len(s) <= maxLength /\ s # cur }

\* a replace that removes nothing
StripNothing(s) == s

\* .replace(/\D/g, '')
StripNonDigits(s) == SelectSeq(s, LAMBDA c : c \in DigitChars)

\* .slice(0, 6)
SliceOtp(s) == SubSeq(s, 1, IF Len(s) < OtpLen THEN Len(s) ELSE OtpLen)

\* otp.length !== 6 || !/^\d{6}$/.test(otp), negated
OtpValid(o) == Len(o) = OtpLen /\ \A i \in 1..Len(o) : o[i] \in DigitChars

\* handleVerify sending whatever code it is given
handleVerifyUnchecked(o, email) ==
    [requests |-> {[op |-> "verifyEmail", email |-> email, otp |-> o]},
     loading |-> TRUE, toast |-> None]

\* a handleVerify that sets isLoading before it validates the code
handleVerifyBusyFirst(o, email) ==
    IF ~OtpValid(o)
    THEN [requests |-> {}, loading |-> TRUE,
          toast |-> Toast(TitleInvalidOTP, JStr(MsgEnterValidCode))]
    ELSE [requests |-> {[op |-> "verifyEmail", email |-> email, otp |-> o]},
          loading |-> TRUE, toast |-> None]

\* handleVerify up to the await, run with the otp and email of the render
\* whose handler called it
handleVerify(o, email) ==
    IF ~OtpValid(o)
    THEN [requests |-> {}, loading |-> FALSE,
          toast |-> Toast(TitleInvalidOTP, JStr(MsgEnterValidCode))]
    ELSE [requests |-> {[op |-> "verifyEmail", email |-> email, otp |-> o]},
          loading |-> TRUE, toast |-> None]

NoVerify == [requests |-> {}, loading |-> FALSE, toast |-> None]

\* handleOtpChange: setOtp(value) takes effect with the next render, so the
\* handleVerify it calls still reads the otp of the current render
handleOtpChange(s) ==
    LET value == SliceOtp(StripNonDigits(s))
        v == IF Len(value) = OtpLen THEN handleVerify(otp, pendingVerificationEmail)
             ELSE NoVerify
    IN  /\ mounted /\ isOTPModalOpen /\ ~otpIsLoading
        /\ otp' = value
        /\ otpIsLoading' = v.loading
        /\ pending' = pending \cup v.requests
        /\ ev' = [op |-> "handleOtpChange", input |-> s, requests |-> v.requests,
                  toast |-> v.toast]
        /\ UNCHANGED cooldownVars
        /\ UNCHANGED << mounted, recoveryVars >>
        /\ UNCHANGED << auth_token, isAuthModalOpen, isAuthenticated, user, activeTab,
                        authIsLoading, isOTPModalOpen, pendingVerificationEmail >>

\* handlePaste: the default paste is prevented; nothing is set on an empty result
handlePaste(s) ==
    LET pastedData == SliceOtp(StripNonDigits(s))
        v == IF pastedData # << >> /\ Len(pastedData) = OtpLen
             THEN handleVerify(otp, pendingVerificationEmail)
             ELSE NoVerify
    IN  /\ mounted /\ isOTPModalOpen /\ ~otpIsLoading
        /\ otp' = IF pastedData # << >> THEN pastedData ELSE otp
        /\ otpIsLoading' = v.loading
        /\ pending' = pending \cup v.requests
        /\ ev' = [op |-> "handlePaste", input |-> s, requests |-> v.requests,
                  toast |-> v.toast]
        /\ UNCHANGED cooldownVars
        /\ UNCHANGED << mounted, recoveryVars >>
        /\ UNCHANGED << auth_token, isAuthModalOpen, isAuthenticated, user, activeTab,
                        authIsLoading, isOTPModalOpen, pendingVerificationEmail >>

\* the form's submit: the button is disabled while loading or short of 6 digits
SubmitOtp ==
    LET v == handleVerify(otp, pendingVerificationEmail)
    IN  /\ mounted /\ isOTPModalOpen /\ ~otpIsLoading /\ Len(otp) = OtpLen
        /\ otpIsLoading' = v.loading
        /\ pending' = pending \cup v.requests
        /\ ev' = [op |-> "submitOtp", requests |-> v.requests, toast |-> v.toast]
        /\ UNCHANGED cooldownVars
        /\ UNCHANGED << mounted, recoveryVars >>
        /\ UNCHANGED << auth_token, isAuthModalOpen, isAuthenticated, user, activeTab,
                        authIsLoading, isOTPModalOpen, pendingVerificationEmail, otp >>

\* a test of response?.success alone
VerifyAcceptedOnSuccessOnly(response) ==
    IF Nullish(response) THEN FALSE ELSE Truthy(Get(response, "success"))

\* response?.success || response?.message
VerifyAccepted(response) ==
    IF Nullish(response) THEN FALSE
    ELSE Truthy(Or(Get(response, "success"), Get(response, "message")))

\* everything handleVerify does once authAPI.verifyEmail has settled with res;
\* calls lists the functions it calls, in the order it calls them
handleVerifySettled(res) ==
    IF res.ok /\ VerifyAccepted(res.v)
    THEN [verified |-> TRUE, error |-> None,
          toast |-> Toast(TitleEmailVerified,
                          Or(Get(res.v, "message"), JStr(MsgVerified))),
          calls |-> << "toast", "onVerificationSuccess", "onClose" >>]
    ELSE LET error == IF res.ok THEN MkError("Error", MsgVerificationFailed) ELSE res.e
         IN  [verified |-> FALSE, error |-> error,
              toast |-> Toast(TitleVerificationFailed,
                              Or(error.message, JStr(MsgInvalidOrExpired))),
              calls |-> << "toast" >>]

\* handleVerify from the await on, with handleVerificationSuccess and onClose;
\* the state setters do nothing once the component is unmounted
VerifySettled(req, outcome) ==
    LET res == apiRequest(outcome)
        h == handleVerifySettled(res)
    IN  /\ req \in pending /\ req.op = "verifyEmail"
        /\ pending' = pending \ {req}
        /\ otpIsLoading' = IF mounted THEN FALSE ELSE otpIsLoading
        /\ isOTPModalOpen' = IF mounted /\ h.verified THEN FALSE ELSE isOTPModalOpen
        /\ activeTab' = IF mounted /\ h.verified THEN "login" ELSE activeTab
        /\ ev' = [op |-> "verifySettled", email |-> req.email, result |-> res,
                  did |-> h]
        /\ UNCHANGED cooldownVars
        /\ UNCHANGED << mounted, recoveryVars >>
        /\ UNCHANGED << auth_token, isAuthModalOpen, isAuthenticated, user,
                        authIsLoading, pendingVerificationEmail, otp >>

---------------------------------------------------------------------------
(* Resend and cooldown: handleResendOTP of OTPVerificationModal *)

\* setTimeLeft(60)
CooldownSeconds == 60

TitleOtpResent == << "OTP", "resent" >>
TitleError == << "Error" >>

MsgCodeSent == << "A new verification code has been sent to your email." >>
MsgFailedToResend == << "Failed", "to", "resend", "OTP" >>
MsgResendFallback == << "Failed to resend verification code. Please try again." >>

\* the answers the resend is run against
ResendOutcomes ==
    { [k |-> "response", status |-> s, body |-> [b |-> "json", v |-> v]] :
        s \in {200, 429},
        v \in { JObj([success |-> JBool(TRUE)]), JObj([message |-> JStr(<< "sent" >>)]),
                JObj([error |-> JStr(<< "Too", "many", "requests" >>)]),
                JStr(<< >>) } }
    \cup { [k |-> "reject", cause |-> << "Failed to fetch" >>] }

\* a guard that lets every call through
ResendNeverBlocked == FALSE

\* if (isResending || timeLeft > 0) return
ResendBlocked == isResending \/ timeLeft > 0

\* the request of authAPI.resendOtp(email); n tells it from the requests of
\* the same kind that are still in flight
ResendRequest(email) ==
    [op |-> "resendOtp", email |-> email,
     n |-> Cardinality({ r \in pending : r.op = "resendOtp" }) + 1]

\* handleResendOTP up to the await; the guard is the handler's own, and the
\* button that calls it is also disabled under the same condition
handleResendOTP ==
    /\ mounted /\ isOTPModalOpen
    /\ IF ResendBlocked
       THEN /\ ev' = [op |-> "handleResendOTP", requests |-> {}, toast |-> None]
            /\ UNCHANGED << isResending, pending >>
       ELSE /\ isResending' = TRUE
            /\ pending' = pending \cup {ResendRequest(pendingVerificationEmail)}
            /\ ev' = [op |-> "handleResendOTP",
                      requests |-> {ResendRequest(pendingVerificationEmail)},
                      toast |-> None]
    /\ UNCHANGED << timeLeft, countdownRef, intervals >>
    /\ UNCHANGED << mounted, recoveryVars >>
    /\ UNCHANGED << auth_token, isAuthModalOpen, isAuthenticated, user, activeTab,
                    authIsLoading, isOTPModalOpen, pendingVerificationEmail,
                    otp, otpIsLoading >>

\* response?.success || response?.message
ResendAccepted(response) ==
    IF Nullish(response) THEN FALSE
    ELSE Truthy(Or(Get(response, "success"), Get(response, "message")))

\* setInterval: an id no running interval has
NewIntervalId(running) ==
    CHOOSE i \in 1..(Cardinality(running) + 1) : i \notin running

\* a clearInterval that stops nothing
ClearNothing(running) == running

\* clearInterval(countdownRef.current) under if (countdownRef.current)
ClearCountdown(running) ==
    IF countdownRef = JNull THEN running ELSE running \ {countdownRef.n}

\* a failed resend that starts the countdown all the same
handleResendSettledAlwaysArms(res) ==
    IF res.ok /\ ResendAccepted(res.v)
    THEN [resent |-> TRUE, error |-> None, armed |-> TRUE,
          toast |-> Toast(TitleOtpResent, Or(Get(res.v, "message"), JStr(MsgCodeSent)))]
    ELSE LET error == IF res.ok THEN MkError("Error", MsgFailedToResend) ELSE res.e
         IN  [resent |-> FALSE, error |-> error, armed |-> TRUE,
              toast |-> Toast(TitleError, Or(error.message, JStr(MsgResendFallback)))]

\* everything handleResendOTP decides once authAPI.resendOtp has settled with res
handleResendSettled(res) ==
    IF res.ok /\ ResendAccepted(res.v)
    THEN [resent |-> TRUE, error |-> None, armed |-> TRUE,
          toast |-> Toast(TitleOtpResent, Or(Get(res.v, "message"), JStr(MsgCodeSent)))]
    ELSE LET error == IF res.ok THEN MkError("Error", MsgFailedToResend) ELSE res.e
         IN  [resent |-> FALSE, error |-> error, armed |-> FALSE,
              toast |-> Toast(TitleError, Or(error.message, JStr(MsgResendFallback)))]

\* handleResendOTP from the await on: the countdown starts on success, and
\* isResending is reset in either case; once the component is unmounted the
\* state setters do nothing, while setInterval and the ref work as before
ResendSettled(req, outcome) ==
    LET res == apiRequest(outcome)
        h == handleResendSettled(res)
        id == NewIntervalId(ClearCountdown(intervals))
    IN  /\ req \in pending /\ req.op = "resendOtp"
        /\ pending' = pending \ {req}
        /\ isResending' = IF mounted THEN FALSE ELSE isResending
        /\ timeLeft' = IF mounted /\ h.armed THEN CooldownSeconds ELSE timeLeft
        /\ intervals' = IF h.armed THEN ClearCountdown(intervals) \cup {id} ELSE intervals
        /\ countdownRef' = IF h.armed THEN JNum(id) ELSE countdownRef
        /\ ev' = [op |-> "resendSettled", did |-> h]
        /\ UNCHANGED << mounted, recoveryVars >>
        /\ UNCHANGED << auth_token, isAuthModalOpen, isAuthenticated, user, activeTab,
                        authIsLoading, isOTPModalOpen, pendingVerificationEmail,
                        otp, otpIsLoading >>

\* an updater that takes two seconds off
CountdownByTwo(prev) == IF prev <= 1 THEN 0 ELSE prev - 2

\* the updater of the interval callback: prev <= 1 ? 0 : prev - 1
Countdown(prev) == IF prev <= 1 THEN 0 ELSE prev - 1

\* one run of the interval callback: setTimeLeft(prev => ...), which stops
\* the interval the ref holds when prev is 1 or less.  On an unmounted
\* component the state is not updated, and the updater is either not run at
\* all or run once on the state of the last render
Tick(id) ==
    /\ id \in intervals
    /\ \E updaterRuns \in (IF mounted THEN {TRUE} ELSE BOOLEAN) :
           /\ timeLeft' = IF mounted THEN Countdown(timeLeft) ELSE timeLeft
           /\ intervals' = IF updaterRuns /\ timeLeft <= 1
                           THEN ClearCountdown(intervals) ELSE intervals
           /\ countdownRef' = IF updaterRuns /\ timeLeft <= 1 THEN JNull ELSE countdownRef
    /\ ev' = [op |-> "tick"]
    /\ UNCHANGED << mounted, recoveryVars >>
    /\ UNCHANGED << auth_token, isAuthModalOpen, isAuthenticated, user, activeTab,
                    authIsLoading, isOTPModalOpen, pendingVerificationEmail,
                    otp, otpIsLoading, isResending, pending >>

\* the page is left: the cleanup of the unmount effect stops the interval
\* the ref holds, and the ref keeps its value
Unmount ==
    /\ mounted
    /\ mounted' = FALSE
    /\ intervals' = ClearCountdown(intervals)
    /\ ev' = [op |-> "unmount"]
    /\ UNCHANGED recoveryVars
    /\ UNCHANGED << auth_token, isAuthModalOpen, isAuthenticated, user, activeTab,
                    authIsLoading, isOTPModalOpen, pendingVerificationEmail,
                    otp, otpIsLoading, isResending, timeLeft, countdownRef, pending >>

---------------------------------------------------------------------------
(* Recovery flow: ForgotPasswordModal, opened by AuthModal *)

TitleResetLinkSent == << "Reset", "link", "sent" >>
TitleFailedToSendLink == << "Failed", "to", "send", "reset", "link" >>

MsgCheckYourInbox == << "Check your email for password reset instructions." >>
MsgCheckAddress == << "Please check your email address and try again." >>

\* the answers the recovery is run against
RecoveryOutcomes ==
    { [k |-> "response", status |-> 200, body |-> [b |-> "json", v |-> v]] :
        v \in { JObj([message |-> JStr(<< "sent" >>)]), JNull } }
    \cup { [k |-> "response", status |-> 404, body |-> [b |-> "json", v |-> v]] :
        v \in { JObj([error |-> JStr(<< "User", "not", "found" >>)]), JStr(<< >>) } }
    \cup { [k |-> "response", status |-> 200,
            body |-> [b |-> "text", s |-> << "<html>", "OK" >>]] }
    \cup { [k |-> "reject", cause |-> << "Failed to fetch" >>] }

\* handleForgotPassword of AuthModal: the link on the Sign In tab
handleForgotPassword ==
    /\ mounted /\ isAuthModalOpen /\ activeTab = "login"
    /\ isAuthModalOpen' = FALSE
    /\ isForgotPasswordOpen' = TRUE
    /\ ev' = [op |-> "handleForgotPassword"]
    /\ UNCHANGED cooldownVars
    /\ UNCHANGED << mounted, recEmail, recIsLoading, recIsSuccess >>
    /\ UNCHANGED << auth_token, isAuthenticated, user, activeTab, authIsLoading,
                    isOTPModalOpen, pendingVerificationEmail, otp, otpIsLoading,
                    pending >>

\* onChange of the email field, which the entry form shows
RecSetEmail(s) ==
    /\ mounted /\ isForgotPasswordOpen /\ ~recIsSuccess /\ s # recEmail
    /\ recEmail' = s
    /\ ev' = [op |-> "recSetEmail"]
    /\ UNCHANGED cooldownVars
    /\ UNCHANGED << mounted, isForgotPasswordOpen, recIsLoading, recIsSuccess >>
    /\ UNCHANGED << auth_token, isAuthModalOpen, isAuthenticated, user, activeTab,
                    authIsLoading, isOTPModalOpen, pendingVerificationEmail,
                    otp, otpIsLoading, pending >>

\* a submit button that is disabled by an empty field alone
SubmitDisabledByEmptyField == recEmail = << >>

\* disabled={isLoading || !email} of the submit button
SubmitDisabled == recIsLoading \/ recEmail = << >>

\* handleSubmit up to the await, reached through the submit button
RecSubmit ==
    /\ mounted /\ isForgotPasswordOpen /\ ~recIsSuccess
    /\ ~SubmitDisabled
    /\ recIsLoading' = TRUE
    /\ pending' = pending \cup {[op |-> "forgotPassword", email |-> recEmail]}
    /\ ev' = [op |-> "recSubmit", email |-> recEmail]
    /\ UNCHANGED cooldownVars
    /\ UNCHANGED << mounted, isForgotPasswordOpen, recEmail, recIsSuccess >>
    /\ UNCHANGED << auth_token, isAuthModalOpen, isAuthenticated, user, activeTab,
                    authIsLoading, isOTPModalOpen, pendingVerificationEmail,
                    otp, otpIsLoading >>

\* a handleSubmit that takes every answer for a success
handleSubmitSettledAlwaysSent(res) ==
    [sent |-> TRUE, error |-> None,
     toast |-> Toast(TitleResetLinkSent, JStr(MsgCheckYourInbox))]

\* everything handleSubmit decides once authAPI.forgotPassword has settled
handleSubmitSettled(res) ==
    IF res.ok
    THEN [sent |-> TRUE, error |-> None,
          toast |-> Toast(TitleResetLinkSent, JStr(MsgCheckYourInbox))]
    ELSE [sent |-> FALSE, error |-> res.e,
          toast |-> Toast(TitleFailedToSendLink, Or(res.e.message, JStr(MsgCheckAddress)))]

\* handleSubmit from the await on
RecSettled(req, outcome) ==
    LET res == apiRequest(outcome)
        h == handleSubmitSettled(res)
    IN  /\ req \in pending /\ req.op = "forgotPassword"
        /\ pending' = pending \ {req}
        /\ recIsSuccess' = IF mounted /\ h.sent THEN TRUE ELSE recIsSuccess
        /\ recIsLoading' = IF mounted THEN FALSE ELSE recIsLoading
        /\ ev' = [op |-> "recSettled", result |-> res, did |-> h]
        /\ UNCHANGED cooldownVars
        /\ UNCHANGED << mounted, isForgotPasswordOpen, recEmail >>
        /\ UNCHANGED << auth_token, isAuthModalOpen, isAuthenticated, user, activeTab,
                        authIsLoading, isOTPModalOpen, pendingVerificationEmail,
                        otp, otpIsLoading >>

\* onClick of "Send to different email": setIsSuccess(false)
RecBackToForm == [email |-> recEmail, isSuccess |-> FALSE]

\* the "Send to different email" button of the success screen
RecSendToDifferent ==
    /\ mounted /\ isForgotPasswordOpen /\ recIsSuccess
    /\ recEmail' = RecBackToForm.email
    /\ recIsSuccess' = RecBackToForm.isSuccess
    /\ ev' = [op |-> "recSendToDifferent"]
    /\ UNCHANGED cooldownVars
    /\ UNCHANGED << mounted, isForgotPasswordOpen, recIsLoading >>
    /\ UNCHANGED << auth_token, isAuthModalOpen, isAuthenticated, user, activeTab,
                    authIsLoading, isOTPModalOpen, pendingVerificationEmail,
                    otp, otpIsLoading, pending >>

\* handleClose: "Got it", "Back to Sign In", Escape, overlay click
RecClose ==
    /\ mounted /\ isForgotPasswordOpen
    /\ recEmail' = << >>
    /\ recIsSuccess' = FALSE
    /\ isForgotPasswordOpen' = FALSE
    /\ ev' = [op |-> "recClose"]
    /\ UNCHANGED cooldownVars
    /\ UNCHANGED << mounted, recIsLoading >>
    /\ UNCHANGED << auth_token, isAuthModalOpen, isAuthenticated, user, activeTab,
                    authIsLoading, isOTPModalOpen, pendingVerificationEmail,
                    otp, otpIsLoading, pending >>

---------------------------------------------------------------------------
(* Building a request: the config of apiRequest and the wrappers around it *)

HeaderNames == {"Content-Type", "Accept", "Authorization", "X-Request-Id"}

ApplicationJson == JStr(<< "application/json" >>)

\* the headers apiRequest starts from
DefaultHeaders == JObj([k \in {"Content-Type", "Accept"} |-> ApplicationJson])

\* { ...a, ...b }: the fields of b win; spreading undefined adds nothing
Spread(a, b) ==
    IF b.t # "object" THEN a
    ELSE JObj([k \in DOMAIN a.f \cup DOMAIN b.f |->
                 IF k \in DOMAIN b.f THEN b.f[k] ELSE a.f[k]])

\* `Bearer ${token}`
Bearer(token) == JStr(<< "Bearer" >> \o token.s)

\* headers on which the caller's own Authorization wins over the store's
AuthorizeUnlessGiven(headers, token) ==
    IF Truthy(token)
    THEN Spread(JObj([k \in {"Authorization"} |-> Bearer(token)]), headers)
    ELSE headers

\* if (token) config.headers.Authorization = `Bearer ${token}`
Authorize(headers, token) ==
    IF Truthy(token)
    THEN Spread(headers, JObj([k \in {"Authorization"} |-> Bearer(token)]))
    ELSE headers

\* the config handed to fetch. options has the fields method, body and
\* headers, with undefined for a field the caller left out; ...options comes
\* after headers, so the headers of the options replace the merged ones
BuildConfig(options, token) ==
    LET merged == Spread(DefaultHeaders, options.headers)
        headers == IF options.headers = Undef THEN merged ELSE options.headers
    IN  [method |-> IF options.method = Undef THEN JStr(<< "POST" >>) ELSE options.method,
         headers |-> Authorize(headers, token),
         mode |-> "cors",
         credentials |-> "include",
         body |-> options.body]

\* JSON.stringify of the wrapper's argument
JsonText == JStr(<< "json" >>)

\* the calls authAPI and userAPI make
WrapperCalls ==
    { [fn |-> c[1], endpoint |-> c[2],
       options |-> [method |-> c[3], body |-> c[4], headers |-> Undef]] :
        c \in { << "register", "/auth/register", JStr(<< "POST" >>), JsonText >>,
                << "login", "/auth/login", JStr(<< "POST" >>), JsonText >>,
                << "verifyEmail", "/auth/verify-email", JStr(<< "POST" >>), JsonText >>,
                << "forgotPassword", "/auth/forgot-password", JStr(<< "POST" >>), JsonText >>,
                << "resendOtp", "/auth/resend-otp", JStr(<< "POST" >>), JsonText >>,
                << "getProfile", "/users/me", Undef, Undef >>,
                << "updateProfile", "/users/me", JStr(<< "PUT" >>), JsonText >> } }

\* what a caller puts under one header name
CallerValue(k) ==
    CASE k = "Content-Type" -> JStr(<< "text/plain" >>)
      [] k = "Accept" -> JStr(<< "text/html" >>)
      [] k = "Authorization" -> JStr(<< "Bearer", "callerTok" >>)
      [] OTHER -> JStr(<< "r1" >>)

\* the headers a caller may pass in options.headers
CallerHeaders ==
    { JObj([k \in N |-> CallerValue(k)]) : N \in (SUBSET HeaderNames) \ {{}} }

\* calls of apiRequest with headers of the caller's own
HeaderCalls ==
    { [fn |-> "apiRequest", endpoint |-> "/users/me",
       options |-> [method |-> m, body |-> Undef, headers |-> h]] :
        m \in {Undef, JStr(<< "GET" >>)}, h \in CallerHeaders }

\* apiRequest up to fetch(url, config)
BuildRequest(call) ==
    /\ ev' = [op |-> "buildRequest", call |-> call, token |-> getToken,
              config |-> BuildConfig(call.options, getToken)]
    /\ UNCHANGED cooldownVars
    /\ UNCHANGED << mounted, recoveryVars >>
    /\ UNCHANGED << auth_token, isAuthModalOpen, isAuthenticated, user, activeTab,
                    authIsLoading, isOTPModalOpen, pendingVerificationEmail,
                    otp, otpIsLoading, pending >>

\* authHelpers.setToken and authHelpers.removeToken between two requests
PutToken(token) ==
    /\ auth_token' = setToken(token)
    /\ ev' = [op |-> "setToken", token |-> token]
    /\ UNCHANGED cooldownVars
    /\ UNCHANGED << mounted, recoveryVars >>
    /\ UNCHANGED << isAuthModalOpen, isAuthenticated, user, activeTab,
                    authIsLoading, isOTPModalOpen, pendingVerificationEmail,
                    otp, otpIsLoading, pending >>

DropToken ==
    /\ auth_token' = removeToken
    /\ ev' = [op |-> "removeToken"]
    /\ UNCHANGED cooldownVars
    /\ UNCHANGED << mounted, recoveryVars >>
    /\ UNCHANGED << isAuthModalOpen, isAuthenticated, user, activeTab,
                    authIsLoading, isOTPModalOpen, pendingVerificationEmail,
                    otp, otpIsLoading, pending >>

---------------------------------------------------------------------------
(* Specifications *)

\* setActiveTab through the tab list of AuthModal
SwitchTab(tab) ==
    /\ isAuthModalOpen /\ activeTab # tab
    /\ activeTab' = tab
    /\ ev' = [op |-> "switchTab"]
    /\ UNCHANGED cooldownVars
    /\ UNCHANGED << mounted, recoveryVars >>
    /\ UNCHANGED << auth_token, isAuthModalOpen, isAuthenticated, user, authIsLoading,
                    isOTPModalOpen, pendingVerificationEmail, otp, otpIsLoading,
                    pending >>

\* the page after its mount effect: a token may be left from an earlier visit
Init ==
    /\ auth_token \in {JNull} \cup Tokens
    /\ isAuthModalOpen = FALSE
    /\ isAuthenticated = Truthy(getToken)
    /\ user = Undef
    /\ activeTab = "login"
    /\ authIsLoading = FALSE
    /\ isOTPModalOpen = FALSE
    /\ pendingVerificationEmail = << >>
    /\ otp = << >>
    /\ otpIsLoading = FALSE
    /\ isResending = FALSE
    /\ timeLeft = 0
    /\ countdownRef = JNull
    /\ intervals = {}
    /\ mounted = TRUE
    /\ isForgotPasswordOpen = FALSE
    /\ recEmail = << >>
    /\ recIsLoading = FALSE
    /\ recIsSuccess = FALSE
    /\ pending = {}
    /\ ev = [op |-> "init"]

Next ==
    \/ OpenAuthModal
    \/ CloseAuthModal
    \/ \E tab \in {"login", "register"} : SwitchTab(tab)
    \/ \E email \in Emails : handleLogin(email)
    \/ \E req \in pending, outcome \in Outcomes : LoginSettled(req, outcome)
    \/ \E email \in Emails : handleRegister(email)
    \/ \E req \in pending, outcome \in RegisterOutcomes : RegisterSettled(req, outcome)
    \/ handleLogout
    \/ CloseOTP

Spec == Init /\ [][Next]_vars

\* the OTP modal right after a hand-off from a login that found the email unverified
InitOtp ==
    /\ auth_token = JNull
    /\ isAuthModalOpen = TRUE
    /\ isAuthenticated = FALSE
    /\ user = Undef
    /\ activeTab = "login"
    /\ authIsLoading = FALSE
    /\ isOTPModalOpen = TRUE
    /\ pendingVerificationEmail \in Emails
    /\ otp = << >>
    /\ otpIsLoading = FALSE
    /\ isResending = FALSE
    /\ timeLeft = 0
    /\ countdownRef = JNull
    /\ intervals = {}
    /\ mounted = TRUE
    /\ isForgotPasswordOpen = FALSE
    /\ recEmail = << >>
    /\ recIsLoading = FALSE
    /\ recIsSuccess = FALSE
    /\ pending = {}
    /\ ev = [op |-> "init"]

NextOtp ==
    \/ \E s \in ChangeTexts(otp) : handleOtpChange(s)
    \/ \E s \in PasteTexts : handlePaste(s)
    \/ SubmitOtp
    \/ \E req \in pending, outcome \in OtpOutcomes : VerifySettled(req, outcome)
    \/ CloseOTP

SpecOtp == InitOtp /\ [][NextOtp]_vars

\* apiRequest alone, over every answer of the network
ApiCall(outcome) ==
    /\ ev' = [op |-> "apiRequest", outcome |-> outcome, result |-> apiRequest(outcome)]
    /\ UNCHANGED cooldownVars
    /\ UNCHANGED << mounted, recoveryVars >>
    /\ UNCHANGED << auth_token, isAuthModalOpen, isAuthenticated, user, activeTab,
                    authIsLoading, isOTPModalOpen, pendingVerificationEmail,
                    otp, otpIsLoading, pending >>

NextTransport == \E outcome \in Outcomes : ApiCall(outcome)

SpecTransport == Init /\ [][NextTransport]_vars

\* the hand-off of AuthModal to the OTP modal, as a login that found the
\* email unverified or a registration that needs verification makes it; the
\* OTP modal is mounted all along and keeps its state while it is closed
HandOff(email) ==
    /\ mounted /\ ~isOTPModalOpen
    /\ isOTPModalOpen' = TRUE
    /\ pendingVerificationEmail' = email
    /\ ev' = [op |-> "handOff", email |-> email]
    /\ UNCHANGED cooldownVars
    /\ UNCHANGED << mounted, recoveryVars >>
    /\ UNCHANGED << auth_token, isAuthModalOpen, isAuthenticated, user, activeTab,
                    authIsLoading, otp, otpIsLoading, pending >>

\* whole codes, as a password manager or the clipboard delivers them
CodeTexts == { s \in PasteTexts : Len(s) = OtpLen /\ StripNonDigits(s) = s }

\* the OTP modal right after a registration that asked for verification
InitCooldown ==
    /\ auth_token = JNull
    /\ isAuthModalOpen = TRUE
    /\ isAuthenticated = FALSE
    /\ user = Undef
    /\ activeTab = "register"
    /\ authIsLoading = FALSE
    /\ isOTPModalOpen = TRUE
    /\ pendingVerificationEmail \in Emails
    /\ otp = << >>
    /\ otpIsLoading = FALSE
    /\ isResending = FALSE
    /\ timeLeft = 0
    /\ countdownRef = JNull
    /\ intervals = {}
    /\ mounted = TRUE
    /\ isForgotPasswordOpen = FALSE
    /\ recEmail = << >>
    /\ recIsLoading = FALSE
    /\ recIsSuccess = FALSE
    /\ pending = {}
    /\ ev = [op |-> "init"]

NextCooldown ==
    \/ handleResendOTP
    \/ \E req \in pending, outcome \in ResendOutcomes : ResendSettled(req, outcome)
    \/ \E id \in intervals : Tick(id)
    \/ \E s \in CodeTexts : handlePaste(s)
    \/ SubmitOtp
    \/ \E req \in pending, outcome \in OtpOutcomes : VerifySettled(req, outcome)
    \/ CloseOTP
    \/ \E email \in Emails : HandOff(email)

SpecCooldown == InitCooldown /\ [][NextCooldown]_vars

\* the OTP modal with the page being left at any moment
NextTeardown == NextCooldown \/ Unmount

SpecTeardown == InitCooldown /\ [][NextTeardown]_vars

\* the browser keeps calling the callback of an interval that is running
FairSpecCooldown ==
    SpecCooldown /\ WF_vars(\E id \in intervals : Tick(id))

\* the page with the recovery modal: AuthModal is opened, the link on its
\* Sign In tab opens the recovery modal
NextRecovery ==
    \/ OpenAuthModal
    \/ CloseAuthModal
    \/ handleForgotPassword
    \/ \E s \in Emails \cup {<< >>} : RecSetEmail(s)
    \/ RecSubmit
    \/ \E req \in pending, outcome \in RecoveryOutcomes : RecSettled(req, outcome)
    \/ RecSendToDifferent
    \/ RecClose

SpecRecovery == Init /\ [][NextRecovery]_vars

\* the answers the four controllers are run against together
ControllerAnswers ==
    { [k |-> "response", status |-> 200, body |-> [b |-> "json", v |-> v]] :
        v \in { JObj([token |-> JStr(<< "tokA" >>), message |-> JStr(<< "ok" >>)]),
                JObj([needsVerification |-> JBool(TRUE)]) } }
    \cup { [k |-> "reject", cause |-> << "Failed to fetch" >>] }

\* the address signed in and registered with, and the code pasted
ControllerEmails == {<< "a@b.com" >>}
ControllerCodes == { s \in CodeTexts : \A i \in 1..Len(s) : s[i] = s[1] }

\* the page with its three modals: sign in, registration, verification and
\* recovery side by side
NextControllers ==
    \/ OpenAuthModal
    \/ CloseAuthModal
    \/ \E tab \in {"login", "register"} : SwitchTab(tab)
    \/ \E email \in ControllerEmails : handleLogin(email)
    \/ \E req \in pending, outcome \in ControllerAnswers : LoginSettled(req, outcome)
    \/ \E email \in ControllerEmails : handleRegister(email)
    \/ \E req \in pending, outcome \in ControllerAnswers : RegisterSettled(req, outcome)
    \/ CloseOTP
    \/ \E text \in ControllerCodes : handlePaste(text)
    \/ SubmitOtp
    \/ \E req \in pending, outcome \in ControllerAnswers : VerifySettled(req, outcome)
    \/ handleForgotPassword
    \/ \E s \in Emails : RecSetEmail(s)
    \/ RecSubmit
    \/ \E req \in pending, outcome \in ControllerAnswers : RecSettled(req, outcome)
    \/ RecSendToDifferent
    \/ RecClose

SpecControllers == Init /\ [][NextControllers]_vars

\* requests built one after the other while the session store changes
NextRequest ==
    \/ \E call \in WrapperCalls \cup HeaderCalls : BuildRequest(call)
    \/ \E token \in Tokens : PutToken(token)
    \/ DropToken

SpecRequest == Init /\ [][NextRequest]_vars

\* the answers every kind of attempt is run against: a success, a request
\* for verification, an unverified email, details that make the failure
\* handling of handleLogin throw, and a network failure
BusyAnswers ==
    ControllerAnswers
    \cup { [k |-> "response", status |-> 403, body |-> [b |-> "json", v |-> v]] :
            v \in { JObj([error |-> JStr(MsgEmailNotVerified)]),
                    JObj([error |-> JStr(MsgForbidden),
                          details |-> JObj([email |-> JStr(MsgEmailNotVerified)])]) } }

\* every kind of attempt on the page, from its start to the handling of its
\* answer, and the logout; the countdown does not tick
NextBusy ==
    \/ OpenAuthModal
    \/ \E tab \in {"login", "register"} : SwitchTab(tab)
    \/ \E email \in ControllerEmails : handleLogin(email)
    \/ \E req \in pending, outcome \in BusyAnswers : LoginSettled(req, outcome)
    \/ \E email \in ControllerEmails : handleRegister(email)
    \/ \E req \in pending, outcome \in BusyAnswers : RegisterSettled(req, outcome)
    \/ \E text \in ControllerCodes : handlePaste(text)
    \/ SubmitOtp
    \/ \E req \in pending, outcome \in BusyAnswers : VerifySettled(req, outcome)
    \/ handleResendOTP
    \/ \E req \in pending, outcome \in BusyAnswers : ResendSettled(req, outcome)
    \/ handleForgotPassword
    \/ \E s \in ControllerEmails : RecSetEmail(s)
    \/ RecSubmit
    \/ \E req \in pending, outcome \in BusyAnswers : RecSettled(req, outcome)
    \/ handleLogout

SpecBusy == Init /\ [][NextBusy]_vars

---------------------------------------------------------------------------
(* Vocabulary of the properties *)

\* the code that a change or paste event with text s accumulates
Accumulated(s) == SliceOtp(StripNonDigits(s))

\* v has a field k
Present(v, k) == v.t = "object" /\ k \in DOMAIN v.f

\* the body of a response as the caller is meant to get it: the parsed JSON
\* value, or else the raw text
BodyValue(body) ==
    CASE body.b = "json" -> body.v
      [] body.b = "text" -> JStr(body.s)
      [] OTHER -> JStr(<< >>)

\* a string that carries the words "not verified"
SaysNotVerified(v) == v.t = "string" /\ StrIncludes(v.s, MsgNotVerified)

\* details that say "not verified", as a string, in an array or in an object
DetailsSayNotVerified(d) ==
    CASE d.t = "string" -> SaysNotVerified(d)
      [] d.t = "array" -> \E i \in 1..Len(d.a) : SaysNotVerified(d.a[i])
      [] d.t = "object" -> \E k \in DOMAIN d.f : SaysNotVerified(d.f[k])
      [] OTHER -> FALSE

\* an error that indicates an unverified email by its message or its details
IndicatesUnverified(error) ==
    \/ StrIncludes(error.message.s, MsgEmailNotVerified)
    \/ DetailsSayNotVerified(error.details)

\* a response came back and its status is in 200..299
GotSuccessStatus(outcome) == outcome.k = "response" /\ ResponseOk(outcome.status)

\* a response came back and its status is outside 200..299
GotFailureStatus(outcome) == outcome.k = "response" /\ ~ResponseOk(outcome.status)

\* a response body without a usable token field
LacksToken(body) ==
    LET v == BodyValue(body) IN Nullish(v) \/ ~Truthy(Get(v, "token"))

\* a resolved response that carries a usable token
HasToken(v) == ~Nullish(v) /\ Truthy(Get(v, "token"))

\* the object v without its field k
WithoutField(v, k) == JObj([x \in DOMAIN v.f \ {k} |-> v.f[x]])

\* the call a comes before the call b in the sequence of calls
Before(a, b, calls) ==
    \E i \in 1..Len(calls), j \in 1..Len(calls) : i < j /\ calls[i] = a /\ calls[j] = b


\* a response body with neither a verification marker nor a token
LacksMarkers(body) ==
    LET v == BodyValue(body)
    IN  ~Truthy(OptGet(v, "needsVerification")) /\ ~Truthy(OptGet(v, "token"))


\* the error apiRequest throws when no response was reached
IsNetworkFailure(error) ==
    error.status = JNum(0) /\ error.message = JStr(MsgNetworkError)

\* the message of a failed registration by the stated priority order
PriorityMessage(error) ==
    IF StrIncludes(error.message.s, MsgAlreadyExists) THEN JStr(MsgAccountExists)
    ELSE IF IsNetworkFailure(error) \/ StrIncludes(error.message.s, MsgNetwork)
    THEN JStr(MsgUnableToConnect)
    ELSE IF Truthy(error.details) THEN Or(DetailsText(error.details), error.message)
    ELSE IF Truthy(error.message) THEN error.message
    ELSE JStr(MsgCheckInformation)


\* a text of digit characters only
OnlyDigits(s) == \A i \in 1..Len(s) : s[i] \in DigitChars


\* a resolved response with a truthy success or message field
SaysDone(v) == ~Nullish(v) /\ (Truthy(Get(v, "success")) \/ Truthy(Get(v, "message")))

\* how often the call a is in the sequence of calls
Occurrences(a, calls) == Cardinality({ i \in 1..Len(calls) : calls[i] = a })


\* the resend requests sent and not yet settled
ResendsInFlight == { r \in pending : r.op = "resendOtp" }


\* the operations a controller must not run twice at a time
GuardedOps == {"verifyEmail", "login", "register", "forgotPassword"}

\* the requests of one operation sent and not yet settled
InFlight(op) == { r \in pending : r.op = op }


\* the method the backend contract gives an operation
ContractMethod(fn) ==
    CASE fn = "getProfile" -> "GET"
      [] fn = "updateProfile" -> "PUT"
      [] OTHER -> "POST"

\* the endpoint the backend contract gives an operation
ContractEndpoint(fn) ==
    CASE fn = "register" -> "/auth/register"
      [] fn = "login" -> "/auth/login"
      [] fn = "verifyEmail" -> "/auth/verify-email"
      [] fn = "forgotPassword" -> "/auth/forgot-password"
      [] fn = "resendOtp" -> "/auth/resend-otp"
      [] OTHER -> "/users/me"

---------------------------------------------------------------------------
(* Properties *)

\* C1: a change or paste event that brings the code to exactly 6 digits
\* issues exactly one verify-email request by itself.
C1_SixDigitsAutoSubmitOnce ==
    (ev.op \in {"handleOtpChange", "handlePaste"} /\ Len(Accumulated(ev.input)) = OtpLen)
        => Cardinality(ev.requests) = 1

\* C2: a login that fails for a reason other than an unverified email ends
\* with the toast "Sign in failed" carrying the error's message, or the
\* generic text when the message is empty.
C2_FailedLoginShowsSignInFailed ==
    (ev.op = "loginSettled" /\ ~ev.did.success /\ ~IndicatesUnverified(ev.did.error))
        => ev.did.toast = Toast(TitleSignInFailed,
                                Or(ev.did.error.message, JStr(MsgCheckCredentials)))

\* C3: a login rejected with an error whose message or details indicate an
\* unverified email opens the OTP modal for the email of the attempt and
\* shows no failure toast, whatever the shape of the details.
C3_UnverifiedLoginOpensOtp ==
    (ev.op = "loginSettled" /\ ~ev.result.ok /\ IndicatesUnverified(ev.result.e))
        => /\ isOTPModalOpen
           /\ pendingVerificationEmail = ev.email
           /\ ev.did.toast = None

\* C4: a response with a status in 200..299 makes apiRequest resolve with the
\* body: the parsed JSON value, or the raw text when the body is not JSON.
C4_SuccessResolvesWithBody ==
    (ev.op = "apiRequest" /\ GotSuccessStatus(ev.outcome))
        => ev.result = Return(BodyValue(ev.outcome.body))

\* C5: a response with a status outside 200..299 makes apiRequest reject with
\* an APIError whose status is the HTTP status, whatever the body.
C5_RejectsWithHttpStatus ==
    (ev.op = "apiRequest" /\ GotFailureStatus(ev.outcome))
        => /\ ~ev.result.ok
           /\ ev.result.e.cls = "APIError"
           /\ ev.result.e.status = JNum(ev.outcome.status)

\* C6: a fetch that fails without a response gives APIError("Network error",
\* 0, the failure's message), and status 0 arises in no other case.
C6_StatusZeroIffNoResponse ==
    ev.op = "apiRequest" =>
        /\ ev.outcome.k = "reject" =>
               ev.result = Throw(APIError(JStr(MsgNetworkError), JNum(0),
                                          JStr(ev.outcome.cause)))
        /\ (~ev.result.ok /\ ev.result.e.status = JNum(0)) => ev.outcome.k = "reject"

\* C7: for a status outside 200..299 the error's message is the body's error
\* field if present, else the text body, else "Request failed"; its details
\* is the body's details field if present, else the whole body.
C7_ErrorMessageAndDetails ==
    (ev.op = "apiRequest" /\ GotFailureStatus(ev.outcome)) =>
        LET data == BodyValue(ev.outcome.body)
        IN  /\ ~ev.result.ok
            /\ ev.result.e.message =
                   IF Present(data, "error") THEN data.f["error"]
                   ELSE IF data.t = "string" THEN data
                   ELSE JStr(MsgRequestFailed)
            /\ ev.result.e.details =
                   IF Present(data, "details") THEN data.f["details"] ELSE data

C9_FailedLoginKeepsToken ==
    (ev.op = "loginSettled" /\ ~ev.did.success) => auth_token = ev.tokenBefore

\* C9 witness: a login failed while a token was held, and the token is still held
C9_Witness ==
    /\ ev.op = "loginSettled"
    /\ ~ev.did.success
    /\ ev.tokenBefore \in Tokens
    /\ auth_token = ev.tokenBefore

\* C10: a login answered with a status in 200..299 but without a token is a
\* failure with the message "No authentication token received": nothing is
\* stored, onLoginSuccess is not called, the modal is not closed and nothing
\* is thrown out of the handler.
C10_NoTokenIsHandledFailure ==
    (ev.op = "loginSettled" /\ GotSuccessStatus(ev.outcome) /\ LacksToken(ev.outcome.body))
        => /\ ~ev.did.success
           /\ ev.did.error.message = JStr(MsgNoToken)
           /\ ev.did.toast = Toast(TitleSignInFailed, JStr(MsgNoToken))
           /\ auth_token = ev.tokenBefore
           /\ ~ev.did.closed
           /\ ev.did.uncaught = None

\* C11: a login that resolves with a response carrying a token stores the
\* token in the session slot, hands the response without its token field to
\* the page as the user, marks the page authenticated and closes the auth
\* modal; the token is stored before the user is handed over.
C11_LoginStoresTokenThenHandsOverProfile ==
    (ev.op = "loginSettled" /\ ev.result.ok /\ HasToken(ev.result.v)) =>
        /\ auth_token = Get(ev.result.v, "token")
        /\ user = WithoutField(ev.result.v, "token")
        /\ ~Present(user, "token")
        /\ isAuthenticated
        /\ ~isAuthModalOpen
        /\ Before("setToken", "onLoginSuccess", ev.did.order)

\* C11 witness: a login replaced the stored token and handed over a user with an id
C11_Witness ==
    /\ ev.op = "loginSettled"
    /\ ev.result.ok
    /\ HasToken(ev.result.v)
    /\ auth_token # ev.tokenBefore
    /\ Present(user, "id")
    /\ ~isAuthModalOpen

\* C12: a registration that resolves with needsVerification: true writes
\* nothing to the session slot, even when the response carries a token too,
\* and opens the OTP modal for the email that was submitted.
C12_NeedsVerificationOpensOtpOnly ==
    (ev.op = "registerSettled" /\ ev.result.ok
        /\ OptGet(ev.result.v, "needsVerification") = JBool(TRUE)) =>
        /\ ev.did.stored = None
        /\ auth_token = ev.tokenBefore
        /\ isOTPModalOpen
        /\ pendingVerificationEmail = ev.email

\* C12 witness: the response asked for verification and carried a token, and
\* the session slot is still empty while the OTP modal is open
C12_Witness ==
    /\ ev.op = "registerSettled"
    /\ ev.result.ok
    /\ OptGet(ev.result.v, "needsVerification") = JBool(TRUE)
    /\ HasToken(ev.result.v)
    /\ auth_token = JNull
    /\ isOTPModalOpen
    /\ pendingVerificationEmail = ev.email

\* C13 as stated: a registration that resolves with a token and without the
\* verification marker ends like a successful login: the token is stored, the
\* page holds a user profile and the auth modal is closed.
C13_TokenRegistrationAdoptsProfile ==
    (ev.op = "registerSettled" /\ ev.result.ok /\ HasToken(ev.result.v)
        /\ ~Truthy(OptGet(ev.result.v, "needsVerification"))) =>
        /\ auth_token = Get(ev.result.v, "token")
        /\ user.t = "object"
        /\ isAuthenticated
        /\ ~isAuthModalOpen

\* C13 amended: such a registration stores the token, hands the user field of
\* the response to the page (undefined when the response has none), marks the
\* page authenticated and closes the auth modal.
C13_TokenRegistrationHandsOverUserField ==
    (ev.op = "registerSettled" /\ ev.result.ok /\ HasToken(ev.result.v)
        /\ ~Truthy(OptGet(ev.result.v, "needsVerification"))) =>
        /\ auth_token = Get(ev.result.v, "token")
        /\ user = Get(ev.result.v, "user")
        /\ isAuthenticated
        /\ ~isAuthModalOpen
        /\ ~authIsLoading

\* C13 witness: a registration answered with a token and a user ended with
\* that token stored and that user held by the page
C13_Witness ==
    /\ ev.op = "registerSettled"
    /\ ev.result.ok
    /\ HasToken(ev.result.v)
    /\ auth_token = Get(ev.result.v, "token")
    /\ auth_token # ev.tokenBefore
    /\ Present(user, "id")
    /\ user = Get(ev.result.v, "user")
    /\ ~isAuthModalOpen

\* C14: a registration answered with a status in 200..299 whose body has
\* neither the verification marker nor a token is a failure: nothing is
\* stored, the OTP modal is not opened, the auth modal is not closed, and
\* the toast "Registration failed" says "Unexpected response from server".
C14_NoMarkerIsUnexpectedResponse ==
    (ev.op = "registerSettled" /\ GotSuccessStatus(ev.outcome)
        /\ LacksMarkers(ev.outcome.body)) =>
        /\ ev.did.branch = "failed"
        /\ ev.did.stored = None
        /\ auth_token = ev.tokenBefore
        /\ ev.did.otpFor = None
        /\ ~ev.did.closed
        /\ ev.did.toast = Toast(TitleRegistrationFailed, JStr(MsgUnexpectedResponse))

\* C15: the description of the "Registration failed" toast follows the
\* priority: "already exists" in the message, then a network failure, then
\* the flattened details, then the raw message, then the fallback text; in
\* particular the transport client's network-failure error gives the
\* unable-to-connect text and not its details.
C15_RegisterMessagePriority ==
    (ev.op = "registerSettled" /\ ev.did.branch = "failed") =>
        ev.did.toast = Toast(TitleRegistrationFailed, PriorityMessage(ev.did.error))

\* C16 as stated: after a change or paste event with the text s the code is
\* the first 6 digits of s, in order; the code is always 0 to 6 digits.
C16_CodeIsFirstSixDigitsOfInput ==
    /\ ev.op \in {"handleOtpChange", "handlePaste"} => otp = Accumulated(ev.input)
    /\ OnlyDigits(otp) /\ Len(otp) <= OtpLen

\* C16 amended: after a change event with the text s, and after a paste of a
\* text s with at least one digit, the code is the first 6 digits of s, in
\* order; a paste without any digit leaves the code as it was; the code is
\* always 0 to 6 digits, and an event that does not complete 6 digits shows
\* no toast and sends nothing, whatever characters it carries.
C16_AccumulatesDigitsPasteWithoutDigitsKeeps ==
    [][ /\ ev'.op = "handleOtpChange" => otp' = Accumulated(ev'.input)
        /\ ev'.op = "handlePaste" =>
               otp' = IF Accumulated(ev'.input) # << >>
                      THEN Accumulated(ev'.input) ELSE otp
        /\ OnlyDigits(otp') /\ Len(otp') <= OtpLen
        /\ (ev'.op \in {"handleOtpChange", "handlePaste"}
               /\ Len(Accumulated(ev'.input)) < OtpLen)
               => (ev'.toast = None /\ ev'.requests = {})
      ]_vars

\* C16 witness: a paste of letters only left a code that was there in place
C16_Witness ==
    /\ ev.op = "handlePaste"
    /\ ev.input # << >>
    /\ Accumulated(ev.input) = << >>
    /\ otp # << >>
    /\ ev.toast = None

\* C17: a verification attempt made with a code that is not exactly 6 digits
\* sends no verify-email request and fails with the "Invalid OTP" toast; the
\* attempt leaves the modal open and the code (the one the event has just
\* accumulated), the cooldown, its timer and the busy flags as they are.
C17_InvalidCodeAttemptSendsNothing ==
    [][ (ev'.op \in {"handleOtpChange", "handlePaste", "submitOtp"}
            /\ (ev'.op = "submitOtp" \/ Len(Accumulated(ev'.input)) = OtpLen)
            /\ ~OtpValid(otp)) =>
           /\ ev'.requests = {}
           /\ pending' = pending
           /\ ev'.toast = Toast(TitleInvalidOTP, JStr(MsgEnterValidCode))
           /\ isOTPModalOpen'
           /\ ev'.op # "submitOtp" => otp' = Accumulated(ev'.input)
           /\ ev'.op = "submitOtp" => otp' = otp
           /\ timeLeft' = timeLeft
           /\ intervals' = intervals
           /\ otpIsLoading' = otpIsLoading
           /\ isResending' = isResending
      ]_vars

\* C17 witness: during a cooldown an attempt failed on the code of the
\* previous render and nothing is in flight
C17_Witness ==
    /\ ev.op = "handlePaste"
    /\ Len(Accumulated(ev.input)) = OtpLen
    /\ ev.toast = Toast(TitleInvalidOTP, JStr(MsgEnterValidCode))
    /\ ev.requests = {}
    /\ pending = {}
    /\ timeLeft > 0
    /\ ~otpIsLoading
    /\ isOTPModalOpen

\* C18 as stated: whenever the verify-email call resolves, verification
\* completes: it is reported upward exactly once, the OTP modal is closed and
\* the auth modal shows the Login tab.
C18_ResolvedVerifyCompletes ==
    (ev.op = "verifySettled" /\ ev.result.ok) =>
        /\ ev.did.verified
        /\ Occurrences("onVerificationSuccess", ev.did.calls) = 1
        /\ ~isOTPModalOpen
        /\ activeTab = "login"

\* C18 amended: when the verify-email call resolves with a response whose
\* success or message field is truthy, verification is reported upward
\* exactly once, the OTP modal is closed, the auth modal shows the Login tab
\* and the controller is no longer busy.
C18_AcceptedVerifyCompletes ==
    (ev.op = "verifySettled" /\ ev.result.ok /\ SaysDone(ev.result.v)) =>
        /\ ev.did.verified
        /\ Occurrences("onVerificationSuccess", ev.did.calls) = 1
        /\ Before("onVerificationSuccess", "onClose", ev.did.calls)
        /\ ~isOTPModalOpen
        /\ activeTab = "login"
        /\ ~otpIsLoading

\* C18 witness: a verification started from the Register tab was accepted on
\* its message alone, the OTP modal is closed and the tab is Login
C18_Witness ==
    /\ ev.op = "verifySettled"
    /\ ev.result.ok
    /\ ~Present(ev.result.v, "success")
    /\ SaysDone(ev.result.v)
    /\ ev.did.verified
    /\ ~isOTPModalOpen
    /\ activeTab = "login"

\* C19: a verification or a resend that fails puts the OTP controller back
\* where it was before the attempt and does nothing more: the code, the
\* cooldown and its timer are untouched, the busy flag of the attempt is
\* false again, the modal stays as it is, and the toast carries the error's
\* message, or the fallback text when the message is empty.
C19_FailureRestoresPreAttemptState ==
    [][ /\ (ev'.op = "verifySettled" /\ ~ev'.did.verified) =>
               /\ otp' = otp
               /\ timeLeft' = timeLeft
               /\ intervals' = intervals /\ countdownRef' = countdownRef
               /\ ~otpIsLoading'
               /\ isResending' = isResending
               /\ isOTPModalOpen' = isOTPModalOpen /\ activeTab' = activeTab
               /\ ev'.did.toast =
                      Toast(TitleVerificationFailed,
                            IF ev'.did.error.message.s # << >>
                            THEN ev'.did.error.message ELSE JStr(MsgInvalidOrExpired))
        /\ (ev'.op = "resendSettled" /\ ~ev'.did.resent) =>
               /\ otp' = otp
               /\ timeLeft' = timeLeft
               /\ intervals' = intervals /\ countdownRef' = countdownRef
               /\ ~isResending'
               /\ otpIsLoading' = otpIsLoading
               /\ isOTPModalOpen' = isOTPModalOpen /\ activeTab' = activeTab
               /\ ev'.did.toast =
                      Toast(TitleError,
                            IF ev'.did.error.message.s # << >>
                            THEN ev'.did.error.message ELSE JStr(MsgResendFallback))
      ]_vars

\* C19 witness: during a cooldown a verification failed with an error that
\* has no message; the code is still there, the modal is open, the timer
\* runs and the fallback text was shown
C19_Witness ==
    /\ ev.op = "verifySettled"
    /\ ~ev.did.verified
    /\ ev.did.error.message = JStr(<< >>)
    /\ ev.did.toast = Toast(TitleVerificationFailed, JStr(MsgInvalidOrExpired))
    /\ Len(otp) = OtpLen
    /\ timeLeft > 0 /\ intervals # {}
    /\ ~otpIsLoading
    /\ isOTPModalOpen

\* C20: a resend asked for while a resend is in flight or the cooldown is
\* above zero does nothing at all: no request, no toast, and the cooldown,
\* the timer and the flags stay as they are; so no more than one resend
\* request is ever in flight.
C20_BlockedResendIsNoOp ==
    [][ /\ (ev'.op = "handleResendOTP" /\ (isResending \/ timeLeft > 0)) =>
               /\ ev'.requests = {}
               /\ ev'.toast = None
               /\ pending' = pending
               /\ timeLeft' = timeLeft
               /\ intervals' = intervals /\ countdownRef' = countdownRef
               /\ isResending' = isResending
               /\ otpIsLoading' = otpIsLoading
               /\ otp' = otp
               /\ isOTPModalOpen' = isOTPModalOpen
        /\ Cardinality(ResendsInFlight') <= 1
      ]_vars

\* C20 witness: a resend was asked for while one was in flight, and still
\* exactly one is in flight
C20_Witness ==
    /\ ev.op = "handleResendOTP"
    /\ ev.requests = {}
    /\ isResending
    /\ Cardinality(ResendsInFlight) = 1
    /\ timeLeft = 0

\* C21: a successful resend sets the cooldown to 60; each tick takes exactly
\* 1 off it until it is 0; it stays within 0..60 and grows only by a
\* successful resend; at 0, with no resend in flight, a resend is sent
\* again; and while the timer keeps ticking the cooldown reaches 0.
C21_CooldownCountsDownFromSixty ==
    /\ [][ /\ (ev'.op = "resendSettled" /\ ev'.did.resent) => timeLeft' = 60
           /\ ev'.op = "tick" => (timeLeft > 0 /\ timeLeft' = timeLeft - 1)
           /\ timeLeft' \in 0..60
           /\ timeLeft' > timeLeft => (ev'.op = "resendSettled" /\ ev'.did.resent)
           /\ (ev'.op = "handleResendOTP" /\ timeLeft = 0 /\ ~isResending)
                  => (ev'.requests # {} /\ isResending')
         ]_vars
    /\ (timeLeft > 0) ~> (timeLeft = 0)

\* C21 witness: the timer has counted the cooldown down to 0 and stopped
C21_Witness ==
    /\ ev.op = "tick"
    /\ timeLeft = 0
    /\ intervals = {}
    /\ countdownRef = JNull
    /\ ~isResending

\* C22: at most one cooldown timer runs at any time, and it is the one the
\* controller holds, over every sequence of resends, ticks, closes and
\* reopens.
C22_AtMostOneTimer ==
    /\ Cardinality(intervals) <= 1
    /\ intervals # {} => countdownRef = JNum(CHOOSE id \in intervals : TRUE)
    /\ intervals = {} => countdownRef = JNull

\* C22 witness: the modal was closed and opened again while the timer of an
\* earlier resend is still the only one running
C22_Witness ==
    /\ ev.op = "handOff"
    /\ isOTPModalOpen
    /\ Cardinality(intervals) = 1
    /\ timeLeft > 0

\* C23: once the OTP controller is unmounted no cooldown timer is running and
\* no timer callback fires any more, also when a resend that was in flight
\* at the unmount succeeds afterwards.
C23_NoTimerAfterUnmount ==
    ~mounted => (intervals = {} /\ ev.op # "tick")

\* C25: closing the recovery modal resets it fully to Entering: while the
\* modal is closed the email is empty, isSuccess is false and nothing is
\* being submitted, so a reopened modal shows the empty entry form and never
\* a success screen left over from before
C25_ClosedRecoveryIsReset ==
    ~isForgotPasswordOpen =>
        /\ recEmail = << >>
        /\ ~recIsSuccess
        /\ ~recIsLoading

\* C26: from Sent, "send to a different email" returns to Entering (the entry
\* form, nothing being submitted) with the email field empty
C26_DifferentEmailClearsField ==
    [][ev'.op = "recSendToDifferent" =>
         /\ recIsSuccess /\ ~recIsSuccess'
         /\ isForgotPasswordOpen'
         /\ recEmail' = << >>]_vars

\* C27: the recovery flow. Submitting moves Entering to Submitting; a
\* forgot-password call that succeeds moves Submitting to Sent; a call that
\* fails moves back to Entering, with isSuccess still false and the email in
\* the field untouched, and shows the error's message or, without one, the
\* generic text; Sent is entered by nothing but a successful call.
C27_RecoveryTransitions ==
    [][ /\ ev'.op = "recSubmit" =>
            /\ ~recIsLoading /\ ~recIsSuccess
            /\ recIsLoading' /\ ~recIsSuccess'
        /\ (ev'.op = "recSettled" /\ ev'.result.ok) =>
            /\ recIsLoading /\ ~recIsSuccess
            /\ recIsSuccess' /\ ~recIsLoading'
        /\ (ev'.op = "recSettled" /\ ~ev'.result.ok) =>
            /\ recIsLoading /\ ~recIsSuccess
            /\ ~recIsSuccess' /\ ~recIsLoading'
            /\ recEmail' = recEmail
            /\ ev'.did.toast.title = TitleFailedToSendLink
            /\ ev'.did.toast.description =
                   IF Truthy(ev'.result.e.message) THEN ev'.result.e.message
                   ELSE JStr(MsgCheckAddress)
        /\ (recIsSuccess' /\ ~recIsSuccess) =>
            (ev'.op = "recSettled" /\ ev'.result.ok) ]_vars

\* C27 witness: a failed call brought the form back with the typed email
\* and the error's own message
C27_Witness ==
    /\ ev.op = "recSettled"
    /\ ~ev.result.ok
    /\ isForgotPasswordOpen
    /\ recEmail # << >>
    /\ ~recIsSuccess /\ ~recIsLoading
    /\ ev.did.toast.description = JStr(<< "User", "not", "found" >>)

\* C24: the result of a request that arrives after its modal was closed is
\* ignored: a verify-email answer arriving with the OTP modal closed neither
\* reports the verification upward nor switches the tab, a login answer
\* arriving with the auth modal closed stores no token, and a forgot-password
\* answer arriving with the recovery modal closed leaves the email and the
\* success flag as they were
C24_LateResultIsIgnored ==
    [][ /\ (ev'.op = "verifySettled" /\ ~isOTPModalOpen) =>
            /\ Occurrences("onVerificationSuccess", ev'.did.calls) = 0
            /\ activeTab' = activeTab
        /\ (ev'.op = "loginSettled" /\ ~isAuthModalOpen) =>
            auth_token' = auth_token
        /\ (ev'.op = "recSettled" /\ ~isForgotPasswordOpen) =>
            /\ recIsSuccess' = recIsSuccess
            /\ recEmail' = recEmail ]_vars

C30_DefaultHeadersSurviveMerge ==
    ev.op = "buildRequest" =>
        LET given == ev.call.options.headers
            sent == ev.config.headers
        IN  /\ \A k \in {"Content-Type", "Accept"} :
                   /\ Present(sent, k)
                   /\ ~Present(given, k) => Get(sent, k) = ApplicationJson
            /\ \A k \in HeaderNames \ {"Authorization"} :
                   Present(given, k) => Get(sent, k) = Get(given, k)

\* C31: each operation of authAPI and userAPI builds its request with the
\* method and the endpoint of the backend contract: register, login,
\* verify-email, forgot-password and resend-otp POST to their /auth/...
\* endpoint, get-profile GET /users/me, update-profile PUT /users/me
C31_MethodAndEndpointOfContract ==
    (ev.op = "buildRequest" /\ ev.call \in WrapperCalls) =>
        /\ ev.call.endpoint = ContractEndpoint(ev.call.fn)
        /\ ev.config.method = JStr(<< ContractMethod(ev.call.fn) >>)

\* C32: the session store is one slot, the last write wins: right after a
\* setToken getToken gives its argument, right after a removeToken it gives
\* nothing, no other step changes it; authHelpers.isAuthenticated is true
\* exactly when the slot holds a token, and the slot never holds more than
\* the one value
C32_SingleSlotLastWriteWins ==
    /\ [](/\ getToken \in {JNull} \cup Tokens
          /\ authHelpersIsAuthenticated <=> (getToken # JNull))
    /\ [][ /\ ev'.op = "setToken" => getToken' = ev'.token
           /\ ev'.op = "removeToken" => getToken' = JNull
           /\ ev'.op \notin {"setToken", "removeToken"} => getToken' = getToken ]_vars

\* C32 witness: a setToken was the latest call, the slot holds its argument
\* and a request built now would carry it
C32_Witness ==
    /\ ev.op = "setToken"
    /\ getToken = ev.token
    /\ authHelpersIsAuthenticated
    /\ \E call \in WrapperCalls :
           BuildConfig(call.options, getToken).headers.f["Authorization"] = Bearer(ev.token)

\* C33: every verify-email request carries as otp the code the controller
\* holds once the triggering event is taken in (the value that change or
\* paste has just accumulated), never an earlier one, and as email the
\* pending email of the latest hand-off
C33_RequestCarriesCurrentCode ==
    [][ev'.op \in {"handleOtpChange", "handlePaste", "submitOtp"} =>
         \A r \in ev'.requests :
             /\ r.otp = otp'
             /\ r.email = pendingVerificationEmail']_vars

\* C34: the handling of an answer always ends with the busy flag of its
\* controller false - isLoading of AuthModal after a login or a registration,
\* isLoading of the OTP modal after a verification, isResending after a
\* resend, isLoading of the recovery modal after a forgot-password - on every
\* path, a failure handling that throws included; and a flag is true only
\* while a request of its controller is in flight, so none stays stuck
C34_BusyFlagCleared ==
    /\ [](/\ authIsLoading => InFlight("login") \cup InFlight("register") # {}
          /\ otpIsLoading => InFlight("verifyEmail") # {}
          /\ isResending => InFlight("resendOtp") # {}
          /\ recIsLoading => InFlight("forgotPassword") # {})
    /\ [][ /\ ev'.op \in {"loginSettled", "registerSettled"} =>
                (authIsLoading /\ ~authIsLoading')
           /\ ev'.op = "verifySettled" => (otpIsLoading /\ ~otpIsLoading')
           /\ ev'.op = "resendSettled" => (isResending /\ ~isResending')
           /\ ev'.op = "recSettled" => (recIsLoading /\ ~recIsLoading') ]_vars

\* C34 witness: the failure handling of a login threw on the shape of the
\* details, and the modal is not busy
C34_Witness ==
    /\ ev.op = "loginSettled"
    /\ ev.did.uncaught # None
    /\ ~authIsLoading
    /\ isAuthModalOpen

\* C35: once the mount check has run, the page's isAuthenticated flag is
\* true exactly when the session store holds a token, over any sequence of
\* logins, registrations, verifications and logouts with any answers; a
\* logout leaves the store empty, the user undefined and the flag false
C35_FlagFollowsStoredToken ==
    /\ [](isAuthenticated <=> (getToken # JNull))
    /\ [][ev'.op = "handleLogout" =>
            /\ getToken' = JNull
            /\ user' = Undef
            /\ ~isAuthenticated']_vars

\* C35 witness: a login on a page that held no token has stored one and set
\* the flag
C35_Witness ==
    /\ ev.op = "loginSettled"
    /\ ev.did.success
    /\ ev.tokenBefore = JNull
    /\ getToken \in Tokens
    /\ isAuthenticated

====
